---- MODULE Spec2Model ----
(***************************************************************************)
(* Model of the booking ledger (src/db.py) and of the reservation client   *)
(* (src/api_client.py, class ClubAPI).                                     *)
(*                                                                         *)
(* Ledger: the bookings table, its AUTOINCREMENT counter and the SQL of    *)
(* each function.  TEXT columns are compared the way SQLite compares them  *)
(* (bytewise), so a time "HH:MM" is a sequence of character codes.         *)
(*                                                                         *)
(* Client: the fields of one ClubAPI object and, per asyncio task using    *)
(* it, the frame of the coroutine the task is running.  A step of a task   *)
(* is the code between two suspensions (a network round trip or a sleep);  *)
(* awaiting a coroutine that does not suspend (_ensure_authenticated with  *)
(* a token, _get_session) is not a scheduling point.                       *)
(***************************************************************************)
EXTENDS Integers, Sequences, FiniteSets, TLC

VARIABLES
    bookings,   \* rows of table bookings (db.py:23-31)
    seq,        \* AUTOINCREMENT counter: the largest id ever assigned
    caller,     \* per caller of the ledger: position in check-then-insert
    token,          \* self.token
    refresh_token,  \* self.refresh_token
    hosts_cache,    \* self._hosts_cache
    session,        \* self.session: "none", "open" or "closed"
    task            \* per task: the frame of the client coroutine it runs

ledgerVars == <<bookings, seq, caller>>
clientVars == <<token, refresh_token, hosts_cache, session, task>>

-----------------------------------------------------------------------------
(* Bounds *)

MaxBookings == 2      \* inserts per run of the ledger specifications
MaxRetries  == 4      \* largest max_retries passed to authenticate() directly
MaxRetriesFair == 3   \* the same, in the specification with fairness

-----------------------------------------------------------------------------
(* Text values *)

\* "HH:MM" as the sequence of its character codes ('0' = 48, ':' = 58).
TimeStr(h, m) ==
    <<48 + (h \div 10), 48 + (h % 10), 58, 48 + (m \div 10), 48 + (m % 10)>>

\* "YYYY-MM-DD" as the sequence of its character codes ('-' = 45).
DateStr(y, m, d) ==
    <<48 + (y \div 1000), 48 + ((y \div 100) % 10), 48 + ((y \div 10) % 10),
      48 + (y % 10), 45, 48 + (m \div 10), 48 + (m % 10), 45,
      48 + (d \div 10), 48 + (d % 10)>>

Min2(a, b) == IF a < b THEN a ELSE b

Last(s) == s[Len(s)]

\* SQLite BINARY collation on TEXT: memcmp of the common prefix, then the
\* shorter string is the smaller one.
TextLess(a, b) ==
    \/ \E i \in 1..Min2(Len(a), Len(b)) :
          /\ a[i] < b[i]
          /\ \A j \in 1..(i - 1) : a[j] = b[j]
    \/ /\ Len(a) < Len(b)
       /\ \A j \in 1..Len(a) : a[j] = b[j]

\* Minutes since midnight denoted by a well-formed "HH:MM" text.
MinutesOf(s) ==
    ((s[1] - 48) * 10 + (s[2] - 48)) * 60 + (s[4] - 48) * 10 + (s[5] - 48)

-----------------------------------------------------------------------------
(* Input domains *)

NoneVal == "None"

\* An integer that is absent: SQL NULL in an INTEGER column, Python None
\* where an int is expected, a JSON field that is missing or null.
NoInt == -1

Pcs    == {1, 2}
Dates  == {DateStr(2025, 1, 10), DateStr(2025, 1, 12)}
Users  == {101, 102}
Times  == {TimeStr(9, 0), TimeStr(10, 0), TimeStr(23, 0)}

OnePc   == {1}
OneDate == {DateStr(2025, 1, 10)}
OneUser == {101}

-----------------------------------------------------------------------------
(* db.py *)

\* Variant: inclusive bounds (<=, >=) in the WHERE clause.
is_pc_available_inclusive(bks, pc, date, time_from, time_to) ==
    ~ \E r \in bks :
          /\ r.pc_number = pc
          /\ r.date = date
          /\ ~ TextLess(time_to, r.time_from)
          /\ ~ TextLess(r.time_to, time_from)

\* Variant: the parameters bound as (pc, date, time_from, time_to).
is_pc_available_swapped(bks, pc, date, time_from, time_to) ==
    ~ \E r \in bks :
          /\ r.pc_number = pc
          /\ r.date = date
          /\ TextLess(r.time_from, time_from)
          /\ TextLess(time_to, r.time_to)

\* is_pc_available: SELECT 1 FROM bookings WHERE pc_number = ? AND date = ?
\*   AND time_from < ? AND time_to > ?   with (pc, date, time_to, time_from);
\* returns "result is None".
is_pc_available(bks, pc, date, time_from, time_to) ==
    ~ \E r \in bks :
          /\ r.pc_number = pc
          /\ r.date = date
          /\ TextLess(r.time_from, time_to)
          /\ TextLess(time_from, r.time_to)

\* Variant: the insert re-validates the slot and drops a conflicting row.
InsertRow_revalidated(bks, id, user_id, pc, date, time_from, time_to, api_booking_id) ==
    IF \E r \in bks : r.pc_number = pc /\ r.date = date
    THEN bks
    ELSE bks \cup {[id |-> id, user_id |-> user_id, pc_number |-> pc,
                    date |-> date, time_from |-> time_from, time_to |-> time_to,
                    api_booking_id |-> api_booking_id]}

\* INSERT INTO bookings (...) VALUES (?, ?, ?, ?, ?, ?): the new row gets
\* id = counter + 1 (INTEGER PRIMARY KEY AUTOINCREMENT).
InsertRow(bks, id, user_id, pc, date, time_from, time_to, api_booking_id) ==
    bks \cup {[id |-> id, user_id |-> user_id, pc_number |-> pc,
               date |-> date, time_from |-> time_from, time_to |-> time_to,
               api_booking_id |-> api_booking_id]}

-----------------------------------------------------------------------------
(* Callers of the ledger: check availability, then insert *)

Callers == {1, 2}

IdleCaller == [pc |-> "idle"]

\* await db.is_pc_available(pc, date, time_from, time_to)
CallerCheck(c, P, D) ==
    /\ caller[c].pc = "idle"
    /\ \E u \in OneUser, p \in P, d \in D, tf \in Times, tt \in Times :
          caller' = [caller EXCEPT ![c] =
                        [pc |-> "checked", user_id |-> u, pc_number |-> p,
                         date |-> d, time_from |-> tf, time_to |-> tt,
                         ok |-> is_pc_available(bookings, p, d, tf, tt)]]
    /\ UNCHANGED <<bookings, seq>>

\* await db.add_booking(user_id, pc, date, time_from, time_to) after a check
\* that returned True
CallerAdd(c) ==
    /\ caller[c].pc = "checked"
    /\ caller[c].ok
    /\ seq < MaxBookings
    /\ bookings' = InsertRow(bookings, seq + 1, caller[c].user_id,
                             caller[c].pc_number, caller[c].date,
                             caller[c].time_from, caller[c].time_to, NoInt)
    /\ seq' = seq + 1
    /\ caller' = [caller EXCEPT ![c].pc = "added"]

\* the check returned False: the caller does not insert
CallerRefused(c) ==
    /\ caller[c].pc = "checked"
    /\ ~ caller[c].ok
    /\ caller' = [caller EXCEPT ![c].pc = "refused"]
    /\ UNCHANGED <<bookings, seq>>

\* the caller starts its next request
CallerAgain(c) ==
    /\ caller[c].pc \in {"added", "refused"}
    /\ caller' = [caller EXCEPT ![c] = IdleCaller]
    /\ UNCHANGED <<bookings, seq>>

\* The tuple a SELECT id, pc_number, date, time_from, time_to,
\* api_booking_id returns for row r.
RowTuple(r) ==
    <<r.id, r.pc_number, r.date, r.time_from, r.time_to, r.api_booking_id>>

\* ORDER BY id DESC over a set of rows.
RECURSIVE OrderByIdDesc(_)
OrderByIdDesc(rows) ==
    IF rows = {} THEN <<>>
    ELSE LET top == CHOOSE r \in rows : \A q \in rows : q.id <= r.id
         IN  <<top>> \o OrderByIdDesc(rows \ {top})

\* Variant: ORDER BY id ASC.
get_last_booking_oldest(bks, user_id) ==
    LET sorted == OrderByIdDesc({r \in bks : r.user_id = user_id})
    IN  IF sorted = <<>> THEN <<>> ELSE <<RowTuple(sorted[Len(sorted)])>>

\* get_last_booking: SELECT ... WHERE user_id = ? ORDER BY id DESC LIMIT 1;
\* fetchone() gives the tuple of the first row, or None (here <<>>).
get_last_booking(bks, user_id) ==
    LET sorted == OrderByIdDesc({r \in bks : r.user_id = user_id})
    IN  IF sorted = <<>> THEN <<>> ELSE <<RowTuple(sorted[1])>>

\* Variant: ORDER BY date DESC, time_from ASC.
MayPrecede_time_asc(a, b) ==
    \/ TextLess(b.date, a.date)
    \/ a.date = b.date /\ ~ TextLess(b.time_from, a.time_from)

\* ORDER BY date DESC, time_from DESC: row a may come before row b.  TEXT
\* is compared bytewise; the order of rows equal in both columns is not
\* defined by SQL.
MayPrecede(a, b) ==
    \/ TextLess(b.date, a.date)
    \/ a.date = b.date /\ ~ TextLess(a.time_from, b.time_from)

\* get_user_bookings: SELECT ... WHERE user_id = ? ORDER BY date DESC,
\* time_from DESC; fetchall() gives the list of tuples.  The set of the
\* lists the query may return.
get_user_bookings(bks, user_id) ==
    LET mine == {r \in bks : r.user_id = user_id}
        n    == Cardinality(mine)
    IN  {[i \in 1..n |-> RowTuple(f[i])] :
            f \in {g \in [1..n -> mine] :
                      /\ \A i \in 1..n : \A j \in 1..n : g[i] = g[j] => i = j
                      /\ \A i \in 1..n : \A j \in (i + 1)..n : MayPrecede(g[i], g[j])}}

\* Variant: INSERT only when the table has no row with the same values.
add_booking_once(bks, counter, user_id, pc, date, time_from, time_to, api_booking_id) ==
    IF \E r \in bks : /\ r.user_id = user_id /\ r.pc_number = pc /\ r.date = date
                      /\ r.time_from = time_from /\ r.time_to = time_to
    THEN [bookings |-> bks, seq |-> counter, ret |-> <<>>]
    ELSE [bookings |-> InsertRow(bks, counter + 1, user_id, pc, date,
                                 time_from, time_to, api_booking_id),
          seq |-> counter + 1, ret |-> <<>>]

\* Variant: id INTEGER PRIMARY KEY without AUTOINCREMENT: the new row gets
\* the largest id in the table plus one.
add_booking_rowid(bks, counter, user_id, pc, date, time_from, time_to, api_booking_id) ==
    LET top == IF bks = {} THEN 0
               ELSE (CHOOSE r \in bks : \A q \in bks : q.id <= r.id).id
    IN  [bookings |-> InsertRow(bks, top + 1, user_id, pc, date,
                                time_from, time_to, api_booking_id),
         seq |-> top + 1, ret |-> <<>>]

\* add_booking: the INSERT and the commit; the function has no return
\* statement, so the caller gets None (here <<>>).
add_booking(bks, counter, user_id, pc, date, time_from, time_to, api_booking_id) ==
    [bookings |-> InsertRow(bks, counter + 1, user_id, pc, date,
                            time_from, time_to, api_booking_id),
     seq |-> counter + 1, ret |-> <<>>]

\* Variant: DELETE FROM bookings WHERE id <= ?
DeleteRow_upto(bks, booking_id) == {r \in bks : r.id > booking_id}

\* Variant: the DELETE is never committed.
DeleteRow_never(bks, booking_id) == bks

\* delete_booking: DELETE FROM bookings WHERE id = ?
DeleteRow(bks, booking_id) == {r \in bks : r.id # booking_id}

\* Variant: UPDATE bookings SET api_booking_id = ? (no WHERE).
update_booking_api_id_every_row(bks, booking_id, api_booking_id) ==
    {[r EXCEPT !.api_booking_id = api_booking_id] : r \in bks}

\* update_booking_api_id: UPDATE bookings SET api_booking_id = ? WHERE id = ?
update_booking_api_id(bks, booking_id, api_booking_id) ==
    {IF r.id = booking_id THEN [r EXCEPT !.api_booking_id = api_booking_id] ELSE r :
        r \in bks}

\* A caller that has called a function of the ledger: the function, its
\* arguments, what it returned, and the function called before it.
Called(op, prev, user_id, pc, date, time_from, time_to, api_booking_id, booking_id, ret) ==
    [pc |-> "ret", op |-> op, prev |-> prev, user_id |-> user_id, pc_number |-> pc,
     date |-> date, time_from |-> time_from, time_to |-> time_to,
     api_booking_id |-> api_booking_id, booking_id |-> booking_id, ret |-> ret]

PrevOp(c) == IF caller[c].pc = "ret" THEN caller[c].op ELSE "none"

\* await db.add_booking(user_id, pc, date, time_from, time_to[, api_booking_id]);
\* api_booking_id is None when the argument is omitted.
LedgerAdd(c, user_id, pc, date, time_from, time_to, api_booking_id) ==
    /\ caller[c].pc \in {"idle", "ret"}
    /\ seq < MaxBookings
    /\ LET a == add_booking(bookings, seq, user_id, pc, date, time_from, time_to,
                            api_booking_id)
       IN  /\ bookings' = a.bookings
           /\ seq' = a.seq
           /\ caller' = [caller EXCEPT ![c] =
                  Called("add_booking", PrevOp(c), user_id, pc, date, time_from,
                         time_to, api_booking_id, 0, a.ret)]

\* await db.get_last_booking(user_id)
LedgerGetLast(c, user_id) ==
    /\ caller[c].pc \in {"idle", "ret"}
    /\ caller' = [caller EXCEPT ![c] =
          Called("get_last_booking", PrevOp(c), user_id, 0, <<>>, <<>>, <<>>, NoInt, 0,
                 get_last_booking(bookings, user_id))]
    /\ UNCHANGED <<bookings, seq>>

\* await db.delete_booking(booking_id)
LedgerDelete(c, booking_id) ==
    /\ caller[c].pc \in {"idle", "ret"}
    /\ bookings' = DeleteRow(bookings, booking_id)
    /\ caller' = [caller EXCEPT ![c] =
          Called("delete_booking", PrevOp(c), 0, 0, <<>>, <<>>, <<>>, NoInt, booking_id, <<>>)]
    /\ UNCHANGED seq

\* await db.update_booking_api_id(booking_id, api_booking_id)
LedgerUpdateApiId(c, booking_id, api_booking_id) ==
    /\ caller[c].pc \in {"idle", "ret"}
    /\ bookings' = update_booking_api_id(bookings, booking_id, api_booking_id)
    /\ caller' = [caller EXCEPT ![c] =
          Called("update_booking_api_id", PrevOp(c), 0, 0, <<>>, <<>>, <<>>,
                 api_booking_id, booking_id, <<>>)]
    /\ UNCHANGED seq

\* await db.get_user_bookings(user_id)
LedgerGetUserBookings(c, user_id) ==
    /\ caller[c].pc \in {"idle", "ret"}
    /\ \E res \in get_user_bookings(bookings, user_id) :
          caller' = [caller EXCEPT ![c] =
              Called("get_user_bookings", PrevOp(c), user_id, 0, <<>>, <<>>, <<>>,
                     NoInt, 0, res)]
    /\ UNCHANGED <<bookings, seq>>

\* A caller that books a slot and cancels it again: is_pc_available,
\* add_booking, is_pc_available, get_last_booking (add_booking returns no
\* id), delete_booking of that id, is_pc_available; then it may start
\* again.  The record keeps the arguments, the three answers, the id and the
\* rows held at the start.
TripCheck(c, user_id, pc, date, time_from, time_to) ==
    /\ caller[c].pc \in {"idle", "ret", "trip_final"}
    /\ caller' = [caller EXCEPT ![c] =
          [pc |-> "trip_checked", user_id |-> user_id, pc_number |-> pc,
           date |-> date, time_from |-> time_from, time_to |-> time_to,
           before |-> bookings, booking_id |-> 0,
           ok0 |-> is_pc_available(bookings, pc, date, time_from, time_to),
           ok1 |-> FALSE, ok2 |-> FALSE]]
    /\ UNCHANGED <<bookings, seq>>

TripAdd(c) ==
    /\ caller[c].pc = "trip_checked"
    /\ seq < MaxBookings
    /\ LET q == caller[c]
           a == add_booking(bookings, seq, q.user_id, q.pc_number, q.date,
                            q.time_from, q.time_to, NoInt)
       IN  /\ bookings' = a.bookings
           /\ seq' = a.seq
    /\ caller' = [caller EXCEPT ![c].pc = "trip_added"]

TripRecheck(c) ==
    /\ caller[c].pc = "trip_added"
    /\ LET q == caller[c] IN
       caller' = [caller EXCEPT ![c].pc = "trip_rechecked",
                                ![c].ok1 = is_pc_available(bookings, q.pc_number, q.date,
                                                           q.time_from, q.time_to)]
    /\ UNCHANGED <<bookings, seq>>

TripGetLast(c) ==
    /\ caller[c].pc = "trip_rechecked"
    /\ LET last == get_last_booking(bookings, caller[c].user_id) IN
       caller' = [caller EXCEPT ![c].pc = "trip_known",
                                ![c].booking_id = last[1][1]]
    /\ UNCHANGED <<bookings, seq>>

TripDelete(c) ==
    /\ caller[c].pc = "trip_known"
    /\ bookings' = DeleteRow(bookings, caller[c].booking_id)
    /\ caller' = [caller EXCEPT ![c].pc = "trip_deleted"]
    /\ UNCHANGED seq

TripFinal(c) ==
    /\ caller[c].pc = "trip_deleted"
    /\ LET q == caller[c] IN
       caller' = [caller EXCEPT ![c].pc = "trip_final",
                                ![c].ok2 = is_pc_available(bookings, q.pc_number, q.date,
                                                           q.time_from, q.time_to)]
    /\ UNCHANGED <<bookings, seq>>

vars == <<bookings, seq, caller, token, refresh_token, hosts_cache, session, task>>

-----------------------------------------------------------------------------
(* Python values *)

\* None is NoneVal; a key missing from a JSON object is Missing; strings are
\* themselves.  "not x" is True for None and for the empty string.
Missing == "<missing>"

Falsy(v) == v = NoneVal \/ v = ""

\* dict.get(key): None when the key is missing, else the stored value
\* (which is None for a JSON null).
DictGet(v) == IF v = Missing THEN NoneVal ELSE v

-----------------------------------------------------------------------------
(* api_client.py: authenticate *)

DefaultMaxRetries == 5

retryable_statuses == {500, 502, 503, 504}

\* Variant: the exponent is the attempt number.
Delay_shifted(attempt) == 5 * 2 ^ attempt

\* delay = 5 * (2 ** (attempt - 1))
Delay(attempt) == 5 * 2 ^ (attempt - 1)

\* Variant: the last attempt sleeps too.
MayRetry_inclusive(attempt, max_retries) == attempt <= max_retries

\* "if attempt < max_retries": sleep and continue, else return False
MayRetry(attempt, max_retries) == attempt < max_retries

\* The except clauses of authenticate, in source order.
Handlers == <<"ClientConnectorError", "TimeoutError", "ClientSSLError", "Exception">>

\* issubclass(e, c) for the exception classes the clauses name:
\* aiohttp.ClientSSLError derives from aiohttp.ClientConnectorError, and
\* everything derives from Exception.
IsSubclass(e, c) ==
    \/ e = c
    \/ c = "Exception"
    \/ (e = "ClientSSLError" /\ c = "ClientConnectorError")

\* Python runs the first clause whose class matches the raised exception.
HandlerFor(e) ==
    Handlers[CHOOSE i \in 1..Len(Handlers) :
                /\ IsSubclass(e, Handlers[i])
                /\ \A j \in 1..(i - 1) : ~ IsSubclass(e, Handlers[j])]

\* Every clause retries with backoff except the ClientSSLError one, which
\* returns False at once.
HandlerRetries(h) == h # "ClientSSLError"

\* One outcome of "session.get(.../auth/accesstoken)" and of reading the
\* response:
\*   exc      exception raised before a response arrived, or "none"
\*   status   response.status
\*   json     "ok" or "raises": await response.json()
\*   text     "ok" or "raises": await response.text()
\*   result   data["result"]: Missing, NoneVal or "dict"
\*   tok, ref result["token"], result["refreshToken"]: Missing, NoneVal or text
AuthOutcome(exc, status, json, text, result, tok, ref) ==
    [exc |-> exc, status |-> status, json |-> json, text |-> text,
     result |-> result, tok |-> tok, ref |-> ref]

Raised(e)          == AuthOutcome(e, 0, "-", "-", "-", "-", "-")
Ok200(res, t, r)   == AuthOutcome("none", 200, "ok", "-", res, t, r)
BadJson200         == AuthOutcome("none", 200, "raises", "-", "-", "-", "-")
Status(st, js, tx) == AuthOutcome("none", st, js, tx, "-", "-", "-")

\* The body of the try block for one outcome: what it does to the tokens and
\* how it ends ("true", "false": return; "status": retryable status branch;
\* "raise": exception exc leaves the block).
TryBlock(o, tok, ref) ==
    IF o.exc # "none" THEN
        [end |-> "raise", exc |-> o.exc, tok |-> tok, ref |-> ref]
    ELSE IF o.status = 200 THEN
        IF o.json = "raises" THEN
            [end |-> "raise", exc |-> "Exception", tok |-> tok, ref |-> ref]
        ELSE IF o.result = NoneVal THEN
            \* data.get("result", {}) is None: None.get raises AttributeError
            [end |-> "raise", exc |-> "Exception", tok |-> tok, ref |-> ref]
        ELSE
            LET t == IF o.result = Missing THEN NoneVal ELSE DictGet(o.tok)
                r == IF o.result = Missing THEN NoneVal ELSE DictGet(o.ref)
            IN  [end |-> IF Falsy(t) THEN "false" ELSE "true",
                 exc |-> "none", tok |-> t, ref |-> r]
    ELSE IF o.status \in retryable_statuses THEN
        \* both body reads are inside bare "except:" clauses
        [end |-> "status", exc |-> "none", tok |-> tok, ref |-> ref]
    ELSE IF o.json = "raises" /\ o.text = "raises" THEN
        \* response.text() is called inside the except clause, unprotected
        [end |-> "raise", exc |-> "Exception", tok |-> tok, ref |-> ref]
    ELSE
        [end |-> "false", exc |-> "none", tok |-> tok, ref |-> ref]

\* One iteration of "for attempt in range(1, max_retries + 1)":
\* "true"/"false" when it returns, "retry" when it sleeps and continues.
Iteration(o, attempt, max_retries, tok, ref) ==
    LET b == TryBlock(o, tok, ref)
        backoff == IF MayRetry(attempt, max_retries) THEN "retry" ELSE "false"
        end == CASE b.end = "true"   -> "true"
                 [] b.end = "false"  -> "false"
                 [] b.end = "status" -> backoff
                 [] b.end = "raise"  ->
                        IF HandlerRetries(HandlerFor(b.exc)) THEN backoff ELSE "false"
    IN  [end |-> end, tok |-> b.tok, ref |-> b.ref]

-----------------------------------------------------------------------------
(* api_client.py: get_hosts, _load_hosts_cache, _map_pc_to_host_id *)

\* An element of the host list is [obj, number, id]: obj says whether it is
\* a JSON object (host.get exists only then); NoInt stands for a field that
\* is missing or null (host.get(...) is None).

Host(number, id) == [obj |-> TRUE, number |-> number, id |-> id]

\* A list element that is not an object (null, a number, a string).
NotAHost == [obj |-> FALSE, number |-> NoInt, id |-> NoInt]

\* One outcome of "session.get(.../hosts)" and of reading the response:
\*   shape  "result_data": {"result": {"data": hosts}}
\*          "data":        {"data": hosts}
\*          "list":        hosts as a bare array
\*          "result_other": {"result": <not an object>}
\*          "data_null":   {"data": null}
HostsOutcome(exc, status, json, shape, hosts) ==
    [exc |-> exc, status |-> status, json |-> json, shape |-> shape, hosts |-> hosts]

\* get_hosts after the request: the list it returns, or None (ok = FALSE).
\* Every exception, also of response.json() in the error branch and of
\* len(None), ends in "except Exception: return None".
HostsResult(o) ==
    IF o.exc # "none" \/ o.status # 200 \/ o.json = "raises" THEN
        [ok |-> FALSE, hosts |-> <<>>]
    ELSE IF o.shape \in {"result_data", "data", "list"} THEN
        [ok |-> TRUE, hosts |-> o.hosts]
    ELSE IF o.shape = "result_other" THEN
        [ok |-> TRUE, hosts |-> <<>>]
    ELSE
        [ok |-> FALSE, hosts |-> <<>>]

\* self._hosts_cache[number] = host_id
CachePut(map, number, host_id) ==
    {e \in map : e[1] # number} \cup {<<number, host_id>>}

\* The loop of _load_hosts_cache over the host records, in order: the
\* entries stored, and whether the loop was left by an exception
\* (host.get on an element that is not an object raises AttributeError).
RECURSIVE FillCache(_, _)
FillCache(map, hosts) ==
    IF hosts = <<>> THEN [map |-> map, raised |-> FALSE]
    ELSE LET h == Head(hosts) IN
         IF ~ h.obj THEN [map |-> map, raised |-> TRUE]
         ELSE FillCache(IF h.number # NoInt /\ h.id # NoInt
                        THEN CachePut(map, h.number, h.id)
                        ELSE map,
                        Tail(hosts))

\* _load_hosts_cache after get_hosts returned: None leaves the cache as it
\* is; a list makes it a new dict, filled by the loop as far as the loop
\* got.  Fields src and failed are not program state: src remembers the
\* list the dict was filled from, failed that a get_hosts of
\* _load_hosts_cache has returned None.
LoadedCache(cache, res) ==
    IF res.ok
    THEN [loaded |-> TRUE, map |-> FillCache({}, res.hosts).map, src |-> res.hosts,
          failed |-> cache.failed]
    ELSE [cache EXCEPT !.failed = TRUE]

\* _load_hosts_cache is left by the exception of its loop.
LoadRaises(res) == res.ok /\ FillCache({}, res.hosts).raised

\* _map_pc_to_host_id after _load_hosts_cache: "if self._hosts_cache and
\* pc_number in self._hosts_cache" (an unset or empty cache is falsy).
MappedHostId(cache, pc_number) ==
    IF cache.loaded /\ \E e \in cache.map : e[1] = pc_number
    THEN (CHOOSE e \in cache.map : e[1] = pc_number)[2]
    ELSE pc_number

-----------------------------------------------------------------------------
(* api_client.py: _calculate_duration_minutes and the payload of create_booking *)

IsDigit(c) == c \in 48..57

\* One field of strptime's "%H:%M": the digits s[a..b] as an hour
\* (regex 2[0-3]|[0-1]\d|\d) or as a minute (regex [0-5]\d|\d).
FieldOk(s, a, b, first_max) ==
    /\ b - a \in {0, 1}
    /\ \A i \in a..b : IsDigit(s[i])
    /\ (b - a = 1) => s[a] - 48 <= first_max
    /\ (b - a = 1 /\ first_max = 2 /\ s[a] - 48 = 2) => s[b] - 48 <= 3

FieldVal(s, a, b) ==
    IF a = b THEN s[a] - 48 ELSE (s[a] - 48) * 10 + (s[b] - 48)

\* The positions k of the ':' for which the whole text matches "%H:%M".
ColonAt(s) ==
    {k \in {2, 3} : /\ k < Len(s)
                    /\ s[k] = 58
                    /\ FieldOk(s, 1, k - 1, 2)
                    /\ FieldOk(s, k + 1, Len(s), 5)}

\* datetime.strptime(s, "%H:%M"): minutes since midnight of the parsed time,
\* or ok = FALSE when it raises ValueError.
Strptime(s) ==
    IF ColonAt(s) = {} THEN [ok |-> FALSE, minutes |-> 0]
    ELSE LET k == CHOOSE k \in ColonAt(s) : TRUE
         IN  [ok |-> TRUE,
              minutes |-> FieldVal(s, 1, k - 1) * 60 + FieldVal(s, k + 1, Len(s))]

\* Variant: no day is added when the end is before the start.
calculate_duration_minutes_same_day(time_from, time_to) ==
    LET start == Strptime(time_from)
        end   == Strptime(time_to)
    IN  IF ~ start.ok \/ ~ end.ok THEN 60
        ELSE IF end.minutes < start.minutes
             THEN start.minutes - end.minutes
             ELSE end.minutes - start.minutes

\* _calculate_duration_minutes: both texts parsed, "if end < start: end +=
\* timedelta(days=1)", the difference in whole minutes; 60 on any exception.
calculate_duration_minutes(time_from, time_to) ==
    LET start == Strptime(time_from)
        end   == Strptime(time_to)
    IN  IF ~ start.ok \/ ~ end.ok THEN 60
        ELSE IF end.minutes < start.minutes
             THEN (end.minutes + 1440) - start.minutes
             ELSE end.minutes - start.minutes

\* A string of the payload is the sequence of its characters.
Chars(s) == {s[i] : i \in 1..Len(s)}

\* str.split(sep): the pieces between the occurrences of sep, in order.
RECURSIVE Split(_, _)
Split(s, sep) ==
    IF sep \notin Chars(s) THEN <<s>>
    ELSE LET i == CHOOSE i \in 1..Len(s) :
                      s[i] = sep /\ \A j \in 1..(i - 1) : s[j] # sep
         IN  <<SubSeq(s, 1, i - 1)>> \o Split(SubSeq(s, i + 1, Len(s)), sep)

\* Variant: the dot is looked for in the last piece, split("@")[-1].
ContactEmail_last_piece(contact_email) ==
    IF /\ contact_email # <<>>
       /\ "@" \in Chars(contact_email)
       /\ "." \in Chars(Split(contact_email, "@")[Len(Split(contact_email, "@"))])
    THEN contact_email
    ELSE <<>>

\* "contactEmail": contact_email if contact_email and "@" in contact_email
\*                 and "." in contact_email.split("@")[1] else ""
ContactEmail(contact_email) ==
    IF /\ contact_email # <<>>
       /\ "@" \in Chars(contact_email)
       /\ "." \in Chars(Split(contact_email, "@")[2])
    THEN contact_email
    ELSE <<>>

-----------------------------------------------------------------------------
(* Tasks using the client *)

Tasks == {1, 2}

\* What create_booking returns: kind "inner" (the object under "result"),
\* "body" (the body itself), "wrapped" ({"id": result}), "empty" ({}), or
\* "none" (None); id is the value under "id", NoInt when there is none.
BookingData(kind, id) == [kind |-> kind, id |-> id]

NoBooking == BookingData("none", NoInt)

\* The frame of a task:
\*   op           the public coroutine it runs ("none" when idle)
\*   arg          pc_number of create_booking, booking_id of delete_booking
\*   time_from, time_to, contact_email   arguments of create_booking
\*   pc           "idle"; "auth": in the loop of authenticate; "wait_hosts",
\*                "wait_post", "wait_delete": request sent, response awaited;
\*                "done"
\*   cont         what follows the authenticate in progress: "ret" when it
\*                was called directly, "own" when _ensure_authenticated
\*                called it
\*   max_retries, attempt   of the authenticate call in progress
\*   hist         outcomes of the attempts of that call, in order
\*   sleeps       the delays slept by that call, in order
\*   reqs         the requests the coroutine has sent, in order, each with
\*                the token of its Authorization header
\*   auth_ret     value of _ensure_authenticated's authenticate(), or "none"
\*   status       status of the response to the coroutine's last own request
\*   ret          "none" until the coroutine has returned, then its value
\*                ("int": the number in val; "raise": an exception left it)
\*   val          the host id returned by _map_pc_to_host_id
\*   rec          the booking data returned by create_booking
\*   resp         the outcome of the coroutine's POST or DELETE request
\*   hosts_resp   the outcome of the coroutine's GET /hosts request
\*   cache_set    the call has assigned self._hosts_cache
\*   tok0, ref0   self.token, self.refresh_token when the coroutine started
IdleFrame ==
    [op |-> "none", arg |-> 0, pc |-> "idle", cont |-> "ret",
     time_from |-> <<>>, time_to |-> <<>>, contact_email |-> <<>>,
     max_retries |-> 0, attempt |-> 0,
     hist |-> <<>>, sleeps |-> <<>>, reqs |-> <<>>,
     auth_ret |-> "none", status |-> 0, ret |-> "none",
     val |-> 0, cache_set |-> FALSE,
     rec |-> NoBooking, resp |-> [exc |-> "-"], hosts_resp |-> [exc |-> "-"],
     tok0 |-> NoneVal, ref0 |-> NoneVal]

\* A request: the endpoint, the token of its Authorization header and, for
\* POST /reservations, hostId, duration and contactEmail of the payload.
Payload(ep, bearer, host_id, duration, contactEmail) ==
    [ep |-> ep, bearer |-> bearer, host_id |-> host_id,
     duration |-> duration, contactEmail |-> contactEmail]

Request(ep, bearer, host_id) == Payload(ep, bearer, host_id, 0, <<>>)

\* What each coroutine returns on failure.
FailureOf(op) == IF op = "delete_booking" THEN "False" ELSE "None"

\* Variant: authenticate before every request.
NeedsAuth_always(tok) == TRUE

\* _ensure_authenticated: "if not self.token"
NeedsAuth(tok) == Falsy(tok)

\* create_booking from _calculate_duration_minutes to session.post: the
\* Authorization header is built from self.token as it is now.
SendPost(f, tok, cache) ==
    [f EXCEPT !.pc = "wait_post",
              !.reqs = Append(f.reqs,
                  Payload("POST", tok, MappedHostId(cache, f.arg),
                          calculate_duration_minutes(f.time_from, f.time_to),
                          ContactEmail(f.contact_email)))]

\* _map_pc_to_host_id after _load_hosts_cache has returned.
Mapped(f, cache) ==
    [f EXCEPT !.pc = "done", !.ret = "int", !.val = MappedHostId(cache, f.arg)]

\* The code of a coroutine from the point where _ensure_authenticated has
\* returned True up to its first request; nothing suspends in between.
\* create_booking calls _load_hosts_cache, which returns at once when the
\* cache is set and otherwise calls get_hosts, whose _ensure_authenticated
\* sees the token just checked.  A direct _map_pc_to_host_id is inside
\* get_hosts by then: it tested the cache before.
SendFirst(f, tok, cache) ==
    CASE f.op \in {"get_hosts", "_map_pc_to_host_id"} ->
            [f EXCEPT !.pc = "wait_hosts",
                      !.reqs = Append(f.reqs, Request("GET_HOSTS", tok, 0))]
      [] f.op = "delete_booking" ->
            [f EXCEPT !.pc = "wait_delete",
                      !.reqs = Append(f.reqs, Request("DELETE", tok, 0))]
      [] f.op = "create_booking" ->
            IF cache.loaded
            THEN SendPost(f, tok, cache)
            ELSE [f EXCEPT !.pc = "wait_hosts",
                           !.reqs = Append(f.reqs, Request("GET_HOSTS", tok, 0))]

\* await api.authenticate(max_retries)
CallAuthenticate(t, max_retries) ==
    /\ task[t].pc = "idle"
    /\ task' = [task EXCEPT ![t] =
                   [IdleFrame EXCEPT !.op = "authenticate", !.pc = "auth",
                                     !.max_retries = max_retries, !.attempt = 1,
                                     !.tok0 = token, !.ref0 = refresh_token]]
    /\ UNCHANGED <<token, refresh_token, hosts_cache, session>>

\* A coroutine that begins with _ensure_authenticated is called in task t,
\* its arguments in frame f0: either the loop of authenticate() or the
\* coroutine's first request follows.
CallFrame(t, f0) ==
    /\ task[t].pc = "idle"
    /\ LET f == [f0 EXCEPT !.tok0 = token, !.ref0 = refresh_token]
       IN  IF NeedsAuth(token)
           THEN /\ task' = [task EXCEPT ![t] =
                              [f EXCEPT !.pc = "auth", !.cont = "own",
                                        !.max_retries = DefaultMaxRetries,
                                        !.attempt = 1]]
                /\ UNCHANGED session
           ELSE /\ task' = [task EXCEPT ![t] = SendFirst(f, token, hosts_cache)]
                /\ session' = "open"
    /\ UNCHANGED <<token, refresh_token, hosts_cache>>

\* await api.get_hosts() / api.delete_booking(booking_id)
CallOp(t, op, arg) ==
    CallFrame(t, [IdleFrame EXCEPT !.op = op, !.arg = arg])

\* await api.create_booking(user, pc_number, date, time_from, time_to,
\*                          contact_phone, contact_email)
CallCreate(t, pc_number, time_from, time_to, contact_email) ==
    CallFrame(t, [IdleFrame EXCEPT !.op = "create_booking", !.arg = pc_number,
                                   !.time_from = time_from, !.time_to = time_to,
                                   !.contact_email = contact_email])

\* authenticate has returned v ("True" or "False") in frame f: the caller of
\* authenticate gets it, or _ensure_authenticated passes it on.
AfterAuth(f, v, tok, cache) ==
    IF f.cont = "ret" THEN [f EXCEPT !.pc = "done", !.ret = v]
    ELSE IF v = "True" THEN SendFirst([f EXCEPT !.auth_ret = v], tok, cache)
    ELSE IF f.op = "_map_pc_to_host_id"
    THEN \* get_hosts returns None, _load_hosts_cache returns False
         Mapped([f EXCEPT !.auth_ret = v], cache)
    ELSE [f EXCEPT !.auth_ret = v, !.pc = "done", !.ret = FailureOf(f.op)]

\* await api._map_pc_to_host_id(pc_number): _load_hosts_cache returns at
\* once when the cache is set; otherwise get_hosts starts with
\* _ensure_authenticated.
CallMap(t, pc_number) ==
    /\ task[t].pc = "idle"
    /\ LET f == [IdleFrame EXCEPT !.op = "_map_pc_to_host_id", !.arg = pc_number,
                                  !.tok0 = token, !.ref0 = refresh_token]
       IN  IF hosts_cache.loaded
           THEN /\ task' = [task EXCEPT ![t] = Mapped(f, hosts_cache)]
                /\ UNCHANGED session
           ELSE IF NeedsAuth(token)
           THEN /\ task' = [task EXCEPT ![t] =
                              [f EXCEPT !.pc = "auth", !.cont = "own",
                                        !.max_retries = DefaultMaxRetries,
                                        !.attempt = 1]]
                /\ UNCHANGED session
           ELSE /\ task' = [task EXCEPT ![t] = SendFirst(f, token, hosts_cache)]
                /\ session' = "open"
    /\ UNCHANGED <<token, refresh_token, hosts_cache>>

\* One attempt of authenticate, from the request to the return or to the end
\* of the sleep.
AuthAttempt(t, o) ==
    /\ task[t].pc = "auth"
    /\ task[t].attempt <= task[t].max_retries
    /\ LET f  == task[t]
           it == Iteration(o, f.attempt, f.max_retries, token, refresh_token)
           g  == [f EXCEPT !.hist = Append(f.hist, o),
                           !.reqs = Append(f.reqs, Request("AUTH", "-", 0))]
       IN  /\ token' = it.tok
           /\ refresh_token' = it.ref
           /\ session' = "open"
           /\ task' = [task EXCEPT ![t] =
                 IF it.end = "retry"
                 THEN [g EXCEPT !.sleeps = Append(f.sleeps, Delay(f.attempt)),
                                !.attempt = f.attempt + 1]
                 ELSE AfterAuth(g, IF it.end = "true" THEN "True" ELSE "False",
                                it.tok, hosts_cache)]
    /\ UNCHANGED hosts_cache

\* The loop ends without a return: "return False" after the loop.
AuthLoopEnd(t) ==
    /\ task[t].pc = "auth"
    /\ task[t].attempt > task[t].max_retries
    /\ task' = [task EXCEPT ![t] = AfterAuth(task[t], "False", token, hosts_cache)]
    /\ UNCHANGED <<token, refresh_token, hosts_cache, session>>

\* Variant: _map_pc_to_host_id is awaited before the try block.
ExceptInCreate_outside_try(f) == [f EXCEPT !.pc = "done", !.ret = "raise"]

\* create_booking when the await of _map_pc_to_host_id raises: the await is
\* inside the try block, and "except Exception" returns None.
ExceptInCreate(f) == [f EXCEPT !.pc = "done", !.ret = "None"]

\* The response to GET /hosts: get_hosts returns; _load_hosts_cache assigns
\* the cache when it got a list; _map_pc_to_host_id returns; inside
\* create_booking the POST is sent, or "except Exception" returns None when
\* _load_hosts_cache raised.
RecvHosts(t, o) ==
    /\ task[t].pc = "wait_hosts"
    /\ LET res == HostsResult(o)
           f   == [task[t] EXCEPT !.status = IF o.exc = "none" THEN o.status ELSE 0,
                                  !.hosts_resp = o,
                                  !.cache_set = res.ok /\ task[t].op # "get_hosts"]
           cache == LoadedCache(hosts_cache, res)
       IN  IF f.op = "get_hosts"
           THEN /\ task' = [task EXCEPT ![t] =
                              [f EXCEPT !.pc = "done",
                                        !.ret = IF res.ok THEN "hosts" ELSE "None"]]
                /\ UNCHANGED hosts_cache
           ELSE /\ hosts_cache' = cache
                /\ task' = [task EXCEPT ![t] =
                      IF f.op = "_map_pc_to_host_id"
                      THEN IF LoadRaises(res)
                           THEN [f EXCEPT !.pc = "done", !.ret = "raise"]
                           ELSE Mapped(f, cache)
                      ELSE IF LoadRaises(res)
                           THEN ExceptInCreate(f)
                           ELSE SendPost(f, token, cache)]
    /\ UNCHANGED <<token, refresh_token, session>>

\* One outcome of POST /reservations or DELETE /reservations/{id}.
PlainOutcome(exc, status, json, text) ==
    [exc |-> exc, status |-> status, json |-> json, text |-> text]

\* One outcome of POST /reservations: as PlainOutcome, and for a readable
\* 200 the body:
\*   shape  "result_obj":    {"result": {"id": id, ...}}
\*          "result_scalar": {"result": id}      (a number)
\*          "result_null":   {"result": null}
\*          "bare_obj":      {"id": id, ...}
PostOutcome(exc, status, json, text, shape, id) ==
    [exc |-> exc, status |-> status, json |-> json, text |-> text,
     shape |-> shape, id |-> id]

\* booking_data of a readable 200:
\*   result if isinstance(result, dict) else {"id": result} if result else {}
\* under "result", else the body.  A number is falsy when it is 0.
BookingDataOf(o) ==
    CASE o.shape = "result_obj"    -> BookingData("inner", o.id)
      [] o.shape = "result_scalar" -> IF o.id # 0 THEN BookingData("wrapped", o.id)
                                      ELSE BookingData("empty", NoInt)
      [] o.shape = "result_null"   -> BookingData("empty", NoInt)
      [] o.shape = "bare_obj"      -> BookingData("body", o.id)

\* Variant: a status other than 200 is answered by sending the POST again,
\* once.
AfterPost_resend(f, o) ==
    LET g == [f EXCEPT !.status = IF o.exc = "none" THEN o.status ELSE 0] IN
    IF o.exc = "none" /\ o.status = 200 /\ o.json = "ok"
    THEN [g EXCEPT !.pc = "done", !.ret = "record", !.rec = BookingDataOf(o)]
    ELSE IF o.exc = "none" /\ o.status # 200
            /\ Cardinality({i \in 1..Len(f.reqs) : f.reqs[i].ep = "POST"}) = 1
    THEN [g EXCEPT !.reqs = Append(f.reqs, Last(f.reqs))]
    ELSE [g EXCEPT !.pc = "done", !.ret = "None"]

\* create_booking after the response to POST /reservations: the booking
\* data on a readable 200; None on another status and, through "except
\* Exception", on every exception.
AfterPost(f, o) ==
    LET g == [f EXCEPT !.status = IF o.exc = "none" THEN o.status ELSE 0] IN
    IF o.exc = "none" /\ o.status = 200 /\ o.json = "ok"
    THEN [g EXCEPT !.pc = "done", !.ret = "record", !.rec = BookingDataOf(o)]
    ELSE [g EXCEPT !.pc = "done", !.ret = "None"]

\* The response to POST /reservations.
RecvPost(t, o) ==
    /\ task[t].pc = "wait_post"
    /\ task' = [task EXCEPT ![t] = AfterPost([task[t] EXCEPT !.resp = o], o)]
    /\ UNCHANGED <<token, refresh_token, hosts_cache, session>>

\* Variant: a 200 counts only when its body can be read.
DeleteResult_reads_body(o) ==
    IF o.exc = "none" /\ o.status = 200 /\ o.json = "ok" THEN "True" ELSE "False"

\* delete_booking after the response to DELETE /reservations/{id}: True on
\* status 200, whose body is not read; False on another status and on
\* every exception.
DeleteResult(o) ==
    IF o.exc = "none" /\ o.status = 200 THEN "True" ELSE "False"

\* The response to DELETE /reservations/{id}.
RecvDelete(t, o) ==
    /\ task[t].pc = "wait_delete"
    /\ task' = [task EXCEPT ![t] =
          [task[t] EXCEPT !.pc = "done",
                          !.status = IF o.exc = "none" THEN o.status ELSE 0,
                          !.resp = o,
                          !.ret = DeleteResult(o)]]
    /\ UNCHANGED <<token, refresh_token, hosts_cache, session>>

\* The coroutine's value has been taken; the task is free again.
Return(t) ==
    /\ task[t].pc = "done"
    /\ task' = [task EXCEPT ![t] = IdleFrame]
    /\ UNCHANGED <<token, refresh_token, hosts_cache, session>>

\* await api.close(), between two calls
Close ==
    /\ \A t \in Tasks : task[t].pc = "idle"
    /\ session = "open"
    /\ session' = "closed"
    /\ UNCHANGED <<token, refresh_token, hosts_cache, task>>

\* An empty table (init_db on a new file), callers at rest, and a client as
\* ClubAPI.__init__ leaves it.
Init ==
    /\ bookings = {}
    /\ seq = 0
    /\ caller = [c \in Callers |-> IdleCaller]
    /\ token = NoneVal
    /\ refresh_token = NoneVal
    /\ hosts_cache = [loaded |-> FALSE, map |-> {}, src |-> <<>>, failed |-> FALSE]
    /\ session = "none"
    /\ task = [t \in Tasks |-> IdleFrame]

-----------------------------------------------------------------------------
(* Outcomes of the authentication endpoint *)

RaisedOutcomes ==
    {Raised(e) : e \in {"ClientConnectorError", "ClientSSLError",
                        "TimeoutError", "Exception"}}

TokenOutcomes ==
    {Ok200("dict", "t1", "r1"), Ok200("dict", "t2", Missing)}

NoTokenOutcomes ==
    {Ok200(Missing, "-", "-"), Ok200(NoneVal, "-", "-"),
     Ok200("dict", Missing, Missing), Ok200("dict", NoneVal, "r2"),
     Ok200("dict", "", Missing)}

ServerErrorOutcomes ==
    {Status(st, "ok", "-") : st \in retryable_statuses}
        \cup {Status(504, "raises", "ok"), Status(504, "raises", "raises")}

OtherStatusOutcomes ==
    {Status(401, "ok", "-"), Status(401, "raises", "ok"),
     Status(401, "raises", "raises"), Status(404, "raises", "ok")}

AuthOutcomes ==
    RaisedOutcomes \cup TokenOutcomes \cup NoTokenOutcomes \cup {BadJson200}
        \cup ServerErrorOutcomes \cup OtherStatusOutcomes

-----------------------------------------------------------------------------
(* Specifications *)

\* One sequential caller: every insert directly follows its own check.
SeqCheck   == CallerCheck(1, Pcs, Dates) /\ UNCHANGED clientVars
SeqAdd     == CallerAdd(1) /\ UNCHANGED clientVars
SeqRefused == CallerRefused(1) /\ UNCHANGED clientVars
SeqAgain   == CallerAgain(1) /\ UNCHANGED clientVars

NextSeq == SeqCheck \/ SeqAdd \/ SeqRefused \/ SeqAgain

SpecSeq == Init /\ [][NextSeq]_vars

\* Two callers, one request each on the same station and date, their steps
\* interleaved in any order: every "await" of db.py is a point where the
\* other caller may run.
RaceCheck(c)   == CallerCheck(c, OnePc, OneDate) /\ UNCHANGED clientVars
RaceAdd(c)     == CallerAdd(c) /\ UNCHANGED clientVars
RaceRefused(c) == CallerRefused(c) /\ UNCHANGED clientVars

NextRace == \E c \in Callers : RaceCheck(c) \/ RaceAdd(c) \/ RaceRefused(c)

SpecRace == Init /\ [][NextRace]_vars

\* Remote booking ids and time slots used where the functions of the ledger
\* are called freely.
RemoteIds == {31}

Slots == {<<TimeStr(9, 0), TimeStr(10, 0)>>, <<TimeStr(10, 0), TimeStr(23, 0)>>}

\* One caller calls the functions of the ledger in any order, with any
\* arguments.
FreeAdd ==
    \E u \in Users, p \in OnePc, d \in Dates, sl \in Slots, a \in RemoteIds \cup {NoInt} :
        LedgerAdd(1, u, p, d, sl[1], sl[2], a) /\ UNCHANGED clientVars
FreeGetLast == \E u \in Users : LedgerGetLast(1, u) /\ UNCHANGED clientVars
FreeDelete  == \E b \in 1..(MaxBookings + 1) : LedgerDelete(1, b) /\ UNCHANGED clientVars
FreeGetUserBookings ==
    \E u \in Users : LedgerGetUserBookings(1, u) /\ UNCHANGED clientVars

NextLedger == FreeAdd \/ FreeGetLast \/ FreeDelete \/ FreeGetUserBookings

SpecLedger == Init /\ [][NextLedger]_vars

\* One caller stores rows, sets their remote ids and deletes rows, in any
\* order.  An id of LaterRemoteIds is one the remote service gives to a
\* booking created after the row was stored.
LaterRemoteIds == {32}
UpdAdd ==
    \E u \in OneUser, p \in OnePc, d \in OneDate, sl \in Slots, a \in RemoteIds \cup {NoInt} :
        LedgerAdd(1, u, p, d, sl[1], sl[2], a) /\ UNCHANGED clientVars
UpdUpdateApiId ==
    \E b \in 1..(MaxBookings + 1), a \in RemoteIds \cup LaterRemoteIds \cup {NoInt} :
        LedgerUpdateApiId(1, b, a) /\ UNCHANGED clientVars
UpdDelete == \E b \in 1..(MaxBookings + 1) : LedgerDelete(1, b) /\ UNCHANGED clientVars

NextUpdate == UpdAdd \/ UpdUpdateApiId \/ UpdDelete

SpecUpdate == Init /\ [][NextUpdate]_vars

\* One caller stores rows and, between them, books a slot and cancels it
\* again, any number of times.
RoundKeep ==
    \E u \in Users, p \in Pcs, sl \in Slots :
        LedgerAdd(1, u, p, DateStr(2025, 1, 10), sl[1], sl[2], NoInt)
            /\ UNCHANGED clientVars
RoundCheck ==
    \E u \in Users, p \in Pcs, d \in OneDate, tf \in Times, tt \in Times :
        TripCheck(1, u, p, d, tf, tt) /\ UNCHANGED clientVars
RoundAdd     == TripAdd(1) /\ UNCHANGED clientVars
RoundRecheck == TripRecheck(1) /\ UNCHANGED clientVars
RoundGetLast == TripGetLast(1) /\ UNCHANGED clientVars
RoundDelete  == TripDelete(1) /\ UNCHANGED clientVars
RoundFinal   == TripFinal(1) /\ UNCHANGED clientVars

NextRound ==
    \/ RoundKeep \/ RoundCheck \/ RoundAdd \/ RoundRecheck
    \/ RoundGetLast \/ RoundDelete \/ RoundFinal

SpecRound == Init /\ [][NextRound]_vars

\* One task that calls authenticate(max_retries) again and again, the
\* endpoint answering each attempt in any of the ways of AuthOutcomes.
AuthCall    == \E mr \in 0..MaxRetries : CallAuthenticate(1, mr) /\ UNCHANGED ledgerVars
AuthTry     == \E o \in AuthOutcomes : AuthAttempt(1, o) /\ UNCHANGED ledgerVars
AuthEnd     == AuthLoopEnd(1) /\ UNCHANGED ledgerVars
AuthReturn  == Return(1) /\ UNCHANGED ledgerVars

NextAuth == AuthCall \/ AuthTry \/ AuthEnd \/ AuthReturn

SpecAuth == Init /\ [][NextAuth]_vars

\* Every request ends within its timeout (90 s in total) and every sleep
\* ends, so an attempt that can be made is made.
FairCall   == \E mr \in 0..MaxRetriesFair : CallAuthenticate(1, mr) /\ UNCHANGED ledgerVars
FairTry    == \E o \in AuthOutcomes : AuthAttempt(1, o) /\ UNCHANGED ledgerVars
FairEnd    == AuthLoopEnd(1) /\ UNCHANGED ledgerVars
FairReturn == Return(1) /\ UNCHANGED ledgerVars

NextAuthFair == FairCall \/ FairTry \/ FairEnd \/ FairReturn

SpecAuthFair ==
    /\ Init
    /\ [][NextAuthFair]_vars
    /\ WF_vars(FairTry)
    /\ WF_vars(FairEnd)

\* Outcomes used where all the operations of the client are exercised.
FewAuthOutcomes ==
    {Ok200("dict", "t1", "r1"), Ok200("dict", "t2", Missing),
     Ok200("dict", Missing, "r2"), Status(503, "ok", "-"),
     Status(401, "ok", "-"), Raised("TimeoutError")}

HostLists ==
    {<<>>,
     <<Host(1, 5), Host(2, 6)>>,
     <<Host(1, NoInt), Host(2, 7)>>,
     <<Host(1, 8), NotAHost, Host(2, 9)>>}

HostsOutcomes ==
    {HostsOutcome("none", 200, "ok", sh, h) :
        sh \in {"result_data", "data", "list"}, h \in HostLists}
      \cup {HostsOutcome("none", 200, "ok", "result_other", <<>>),
            HostsOutcome("none", 200, "ok", "data_null", <<>>),
            HostsOutcome("none", 200, "raises", "-", <<>>),
            HostsOutcome("none", 401, "ok", "-", <<>>),
            HostsOutcome("none", 403, "raises", "-", <<>>),
            HostsOutcome("TimeoutError", 0, "-", "-", <<>>)}

PlainOutcomes ==
    {PlainOutcome("none", 200, "ok", "-"), PlainOutcome("none", 200, "raises", "-"),
     PlainOutcome("none", 401, "ok", "-"), PlainOutcome("none", 403, "raises", "ok"),
     PlainOutcome("none", 404, "raises", "raises"),
     PlainOutcome("ClientConnectorError", 0, "-", "-")}

PostOutcomes ==
    {PostOutcome("none", 200, "ok", "-", sh, id) :
        sh \in {"result_obj", "result_scalar", "bare_obj"}, id \in {0, 42}}
      \cup {PostOutcome("none", 200, "ok", "-", "result_null", 0),
            PostOutcome("none", 200, "raises", "-", "-", 0),
            PostOutcome("none", 401, "ok", "-", "-", 0),
            PostOutcome("none", 500, "raises", "ok", "-", 0),
            PostOutcome("none", 404, "raises", "raises", "-", 0),
            PostOutcome("TimeoutError", 0, "-", "-", "-", 0)}

BookingIds == {31}

OneEmail == <<"a", "@", "b", ".", "c">>

\* One task that calls the operations of the client one after the other,
\* the remote API answering each request in any of the ways above.
ClientAuth   == \E mr \in {0, DefaultMaxRetries} : CallAuthenticate(1, mr) /\ UNCHANGED ledgerVars
ClientHosts  == CallOp(1, "get_hosts", 0) /\ UNCHANGED ledgerVars
ClientCreate ==
    \E p \in Pcs : CallCreate(1, p, TimeStr(23, 0), TimeStr(1, 0), OneEmail)
                       /\ UNCHANGED ledgerVars
ClientDelete == \E b \in BookingIds : CallOp(1, "delete_booking", b) /\ UNCHANGED ledgerVars
ClientMap    == \E p \in Pcs : CallMap(1, p) /\ UNCHANGED ledgerVars
ClientTry    == \E o \in FewAuthOutcomes : AuthAttempt(1, o) /\ UNCHANGED ledgerVars
ClientEnd    == AuthLoopEnd(1) /\ UNCHANGED ledgerVars
ClientRecvHosts  == \E o \in HostsOutcomes : RecvHosts(1, o) /\ UNCHANGED ledgerVars
ClientRecvPost   == \E o \in PostOutcomes : RecvPost(1, o) /\ UNCHANGED ledgerVars
ClientRecvDelete == \E o \in PlainOutcomes : RecvDelete(1, o) /\ UNCHANGED ledgerVars
ClientReturn == Return(1) /\ UNCHANGED ledgerVars
ClientClose  == Close /\ UNCHANGED ledgerVars

NextClient ==
    \/ ClientAuth \/ ClientHosts \/ ClientCreate \/ ClientDelete \/ ClientMap
    \/ ClientTry \/ ClientEnd
    \/ ClientRecvHosts \/ ClientRecvPost \/ ClientRecvDelete
    \/ ClientReturn \/ ClientClose

SpecClient == Init /\ [][NextClient]_vars

\* Outcomes used where two tasks share the client.
ConcAuthOutcomes ==
    {Ok200("dict", "t1", "r1"), Ok200("dict", Missing, Missing),
     Status(503, "ok", "-"), Status(401, "ok", "-")}

ConcHostsOutcomes ==
    {HostsOutcome("none", 200, "ok", "data", h) : h \in HostLists}
      \cup {HostsOutcome("none", 401, "ok", "-", <<>>)}

ConcPostOutcomes ==
    {PostOutcome("none", 200, "ok", "-", "result_obj", 42),
     PostOutcome("none", 401, "ok", "-", "-", 0)}

\* Two asyncio tasks call create_booking on the same ClubAPI object; the
\* event loop runs their steps in any order.  (With max_retries = 5 the loop
\* of authenticate always ends by a return inside it.)
ConcCreate(t) ==
    \E p \in Pcs : CallCreate(t, p, TimeStr(23, 0), TimeStr(1, 0), OneEmail)
                       /\ UNCHANGED ledgerVars
ConcTry(t)      == \E o \in ConcAuthOutcomes : AuthAttempt(t, o) /\ UNCHANGED ledgerVars
ConcRecvHosts(t) == \E o \in ConcHostsOutcomes : RecvHosts(t, o) /\ UNCHANGED ledgerVars
ConcRecvPost(t) == \E o \in ConcPostOutcomes : RecvPost(t, o) /\ UNCHANGED ledgerVars
ConcReturn(t)   == Return(t) /\ UNCHANGED ledgerVars

NextConc ==
    \E t \in Tasks :
        \/ ConcCreate(t) \/ ConcTry(t)
        \/ ConcRecvHosts(t) \/ ConcRecvPost(t) \/ ConcReturn(t)

SpecConc == Init /\ [][NextConc]_vars

\* Time texts given to create_booking: "00:00", "01:00", "09:30", "23:00",
\* "23:59", "24:00", "9:5", "", "12-00", "9:60".
PayloadTimes ==
    {TimeStr(0, 0), TimeStr(1, 0), TimeStr(9, 30), TimeStr(23, 0),
     TimeStr(23, 59), TimeStr(24, 0), <<57, 58, 53>>, <<>>,
     <<49, 50, 45, 48, 48>>, <<57, 58, 54, 48>>}

\* Contact e-mails given to create_booking: "", "a@b.c", "a@bc", "a.b@c",
\* "ab.c", "a@b@c.d", "a@b.c@d", "@.".
Emails ==
    {<<>>, OneEmail, <<"a", "@", "b", "c">>, <<"a", ".", "b", "@", "c">>,
     <<"a", "b", ".", "c">>, <<"a", "@", "b", "@", "c", ".", "d">>,
     <<"a", "@", "b", ".", "c", "@", "d">>, <<"@", ".">>}

\* One task calls create_booking with any of these arguments; the remote
\* API lets it authenticate and answers GET /hosts with a host list.
PayCreate ==
    \E p \in OnePc, tf \in PayloadTimes, tt \in PayloadTimes, e \in Emails :
        CallCreate(1, p, tf, tt, e) /\ UNCHANGED ledgerVars
PayTry      == AuthAttempt(1, Ok200("dict", "t1", "r1")) /\ UNCHANGED ledgerVars
PayRecvHosts ==
    RecvHosts(1, HostsOutcome("none", 200, "ok", "data", <<Host(1, 5), Host(2, 6)>>))
        /\ UNCHANGED ledgerVars
PayRecvPost == \E o \in ConcPostOutcomes : RecvPost(1, o) /\ UNCHANGED ledgerVars
PayReturn   == Return(1) /\ UNCHANGED ledgerVars

NextPayload == PayCreate \/ PayTry \/ PayRecvHosts \/ PayRecvPost \/ PayReturn

SpecPayload == Init /\ [][NextPayload]_vars

-----------------------------------------------------------------------------
(* Properties of the ledger *)

Max2(a, b) == IF a > b THEN a ELSE b

\* Two half-open intervals [from, to) of one day cover a common minute.
ShareMinute(r1, r2) ==
    Max2(MinutesOf(r1.time_from), MinutesOf(r2.time_from))
        < Min2(MinutesOf(r1.time_to), MinutesOf(r2.time_to))

NonEmpty(r) == MinutesOf(r.time_from) < MinutesOf(r.time_to)

SameSlot(r, pc, date) == r.pc_number = pc /\ r.date = date

\* C1: is_pc_available answers False exactly when some row of the same
\* station and date has timeFrom < newTo and timeTo > newFrom (as times of
\* day); rows of another station or date do not count, and a query that only
\* touches a row is answered True.
C1_StrictOverlap ==
    \A c \in Callers :
        caller[c].pc = "checked" =>
            LET q == caller[c] IN
            /\ (q.ok = FALSE) <=>
                   \E r \in bookings :
                       /\ SameSlot(r, q.pc_number, q.date)
                       /\ MinutesOf(r.time_from) < MinutesOf(q.time_to)
                       /\ MinutesOf(r.time_to) > MinutesOf(q.time_from)
            /\ (\A r \in bookings :
                    SameSlot(r, q.pc_number, q.date) =>
                        \/ MinutesOf(q.time_from) >= MinutesOf(r.time_to)
                        \/ MinutesOf(q.time_to) <= MinutesOf(r.time_from))
                   => q.ok = TRUE

\* A query that touches the end of a row of its own slot, with a row of
\* another slot overlapping it, has been answered True.
C1_Witness ==
    /\ caller[1].pc = "checked"
    /\ caller[1].ok = TRUE
    /\ MinutesOf(caller[1].time_from) < MinutesOf(caller[1].time_to)
    /\ \E r \in bookings :
          /\ SameSlot(r, caller[1].pc_number, caller[1].date)
          /\ r.time_to = caller[1].time_from
          /\ MinutesOf(r.time_from) < MinutesOf(r.time_to)
    /\ \E r \in bookings :
          /\ ~ SameSlot(r, caller[1].pc_number, caller[1].date)
          /\ r.time_from = caller[1].time_from
          /\ r.time_to = caller[1].time_to

\* C7: with one sequential caller that inserts only directly after its own
\* successful check, no two rows of the same station and date cover a common
\* minute.
C7_NoOverlap ==
    \A r1 \in bookings : \A r2 \in bookings :
        (r1.id # r2.id /\ SameSlot(r2, r1.pc_number, r1.date)) =>
            ~ ShareMinute(r1, r2)

\* Two non-empty rows share a slot, and a third request on that slot has
\* been refused.
C7_Witness ==
    /\ caller[1].pc = "refused"
    /\ \E r1 \in bookings : \E r2 \in bookings :
          /\ r1.id # r2.id
          /\ SameSlot(r2, r1.pc_number, r1.date)
          /\ SameSlot(r1, caller[1].pc_number, caller[1].date)
          /\ NonEmpty(r1)
          /\ NonEmpty(r2)

RowOf(c, r) ==
    /\ r.user_id = caller[c].user_id
    /\ r.pc_number = caller[c].pc_number
    /\ r.date = caller[c].date
    /\ r.time_from = caller[c].time_from
    /\ r.time_to = caller[c].time_to

\* C8: the ledger has no mutual exclusion over check-then-insert: when both
\* callers' checks returned True, both inserts are applied as two rows,
\* whether or not their intervals overlap.
C8_BothInsertsApplied ==
    (caller[1].pc = "added" /\ caller[2].pc = "added") =>
        \E r1 \in bookings : \E r2 \in bookings :
            /\ r1.id # r2.id
            /\ RowOf(1, r1)
            /\ RowOf(2, r2)

\* Both checks returned True, both inserts are done, and the ledger holds
\* two rows of one station and date that cover a common minute.
C8_Witness ==
    /\ caller[1].pc = "added" /\ caller[1].ok
    /\ caller[2].pc = "added" /\ caller[2].ok
    /\ \E r1 \in bookings : \E r2 \in bookings :
          /\ r1.id # r2.id
          /\ RowOf(1, r1)
          /\ RowOf(2, r2)
          /\ SameSlot(r2, r1.pc_number, r1.date)
          /\ ShareMinute(r1, r2)

-----------------------------------------------------------------------------
(* Properties of authenticate *)

\* The outcomes the specification calls retryable: HTTP 500/502/503/504, a
\* connection failure, a timeout, an unexpected exception.
SaidRetryable(o) ==
    \/ o.exc = "none" /\ o.status \in {500, 502, 503, 504}
    \/ o.exc \in {"ClientConnectorError", "TimeoutError", "Exception"}

\* HTTP 200 carrying a token.
CarriesToken(o) ==
    /\ o.exc = "none" /\ o.status = 200 /\ o.json = "ok"
    /\ o.result = "dict" /\ o.tok \notin {Missing, NoneVal, ""}

AllButLastRetryable(h) == \A i \in 1..(Len(h) - 1) : SaidRetryable(h[i])
AllRetryable(h)        == \A i \in 1..Len(h) : SaidRetryable(h[i])

\* The attempt just made was the last one of the call and the call returned
\* False without sleeping after it.
FailedAtOnce(f) ==
    /\ f.pc = "done"
    /\ f.ret = "False"
    /\ Len(f.sleeps) = Len(f.hist) - 1

\* C2: an attempt that fails with a TLS/certificate error ends the call with
\* failure: no sleep and no further request follow it.
C2_TlsNeverRetried ==
    \A t \in Tasks :
        (task[t].hist # <<>> /\ Last(task[t].hist).exc = "ClientSSLError")
            => FailedAtOnce(task[t])

\* C3: k retryable outcomes followed by a 200 with a token, k < max_retries,
\* give success after exactly k+1 attempts; the i-th sleep is 5*2^(i-1)
\* seconds whatever the kind of failure, and nothing is slept after the last
\* attempt.
C3_BackoffThenSuccess ==
    \A t \in Tasks :
        LET f == task[t] IN
        /\ \A i \in 1..Len(f.sleeps) : f.sleeps[i] = 5 * 2 ^ (i - 1)
        /\ (f.pc = "auth" /\ AllRetryable(f.hist) /\ Len(f.hist) < f.max_retries)
              => Len(f.sleeps) = Len(f.hist)
        /\ (f.hist # <<>> /\ AllButLastRetryable(f.hist) /\ CarriesToken(Last(f.hist)))
              => /\ f.pc = "done"
                 /\ f.ret = "True"
                 /\ Len(f.sleeps) = Len(f.hist) - 1
                 /\ token = Last(f.hist).tok

\* Three failures of three different kinds were slept over for 5, 10 and 20
\* seconds and the fourth attempt succeeded.
C3_Witness ==
    LET f == task[1] IN
    /\ f.pc = "done" /\ f.ret = "True"
    /\ Len(f.hist) = 4
    /\ f.hist[1].exc = "TimeoutError"
    /\ f.hist[2].status = 504
    /\ f.hist[3].exc = "ClientConnectorError"
    /\ CarriesToken(f.hist[4])
    /\ f.sleeps = <<5, 10, 20>>

\* C4 (safety part): a call never makes more than max_retries attempts; when
\* every attempt had a retryable outcome it makes exactly max_retries
\* attempts and max_retries - 1 sleeps and returns False, the token still
\* absent.
C4_Bounded ==
    \A t \in Tasks :
        LET f == task[t] IN
        /\ Len(f.hist) <= f.max_retries
        /\ Len(f.sleeps) <= Len(f.hist)
        /\ (f.pc = "done" /\ f.max_retries >= 1 /\ AllRetryable(f.hist))
              => /\ Len(f.hist) = f.max_retries
                 /\ Len(f.sleeps) = f.max_retries - 1
                 /\ f.ret = "False"
                 /\ (Falsy(f.tok0) => Falsy(token))

\* C4: authenticate(max_retries) always terminates, within the bounds of
\* C4_Bounded.
C4_TerminatesBounded ==
    /\ [] C4_Bounded
    /\ \A t \in Tasks : (task[t].pc = "auth") ~> (task[t].pc = "done")

\* Every attempt of a call with max_retries >= 2 was retryable, and the call
\* has returned False with no token.
C4_Witness ==
    LET f == task[1] IN
    /\ f.pc = "done" /\ f.ret = "False"
    /\ f.max_retries >= 2
    /\ Len(f.hist) = f.max_retries
    /\ AllRetryable(f.hist)
    /\ Len(f.sleeps) = f.max_retries - 1
    /\ token = NoneVal

\* C5: a status that is neither 200 nor 500/502/503/504 ends the call with
\* failure on that attempt, also when its body cannot be read.
C5_OtherStatusNeverRetried ==
    \A t \in Tasks :
        (/\ task[t].hist # <<>>
         /\ Last(task[t].hist).exc = "none"
         /\ Last(task[t].hist).status \notin {200, 500, 502, 503, 504})
            => FailedAtOnce(task[t])

\* C6: a 200 whose body carries no token (result missing, result null, or
\* result without a token field) ends the call with failure on that attempt.
C6_MissingTokenNeverRetried ==
    \A t \in Tasks :
        (/\ task[t].hist # <<>>
         /\ Last(task[t].hist).exc = "none"
         /\ Last(task[t].hist).status = 200
         /\ Last(task[t].hist).json = "ok"
         /\ \/ Last(task[t].hist).result \in {Missing, NoneVal}
            \/ Last(task[t].hist).tok = Missing)
            => FailedAtOnce(task[t])

-----------------------------------------------------------------------------
(* Properties of the session state *)

\* C9: once self.token holds a token, no step of any client operation and no
\* response makes it absent again.
C9_TokenNeverLost ==
    [][(~ Falsy(token)) => (~ Falsy(token'))]_vars

OwnEndpoints == {"GET_HOSTS", "POST", "DELETE"}

SentAuth(f) == \E i \in 1..Len(f.reqs) : f.reqs[i].ep = "AUTH"
SentOwn(f)  == \E i \in 1..Len(f.reqs) : f.reqs[i].ep \in OwnEndpoints

\* C10: get_hosts, create_booking and delete_booking started with a token
\* send nothing to the authentication endpoint and leave token and
\* refresh_token as they were, whatever the remote API answers; started
\* without a token they call authenticate() first and send their own request
\* only after it has succeeded.
C10_TokenTrusted ==
    \A t \in Tasks :
        LET f == task[t] IN
        f.op \in {"get_hosts", "create_booking", "delete_booking"} =>
            /\ (~ Falsy(f.tok0)) =>
                  /\ ~ SentAuth(f)
                  /\ f.auth_ret = "none"
                  /\ SentOwn(f)
                  /\ token = f.tok0
                  /\ refresh_token = f.ref0
            /\ Falsy(f.tok0) =>
                  /\ f.pc # "auth" => (f.reqs # <<>> /\ f.reqs[1].ep = "AUTH")
                  /\ SentOwn(f) =>
                        /\ f.auth_ret = "True"
                        /\ CarriesToken(Last(f.hist))
                        /\ \A i \in 1..Len(f.reqs) :
                              f.reqs[i].ep \in OwnEndpoints => i > Len(f.hist)
                  /\ f.auth_ret = "False" =>
                        (~ SentOwn(f) /\ f.pc = "done" /\ f.ret = FailureOf(f.op))
                  /\ (f.pc = "done" /\ ~ SentOwn(f)) => f.auth_ret = "False"

\* delete_booking, started with a token, was answered 401 and returned False
\* with the same token and no authentication request.
C10_Witness ==
    LET f == task[1] IN
    /\ f.op = "delete_booking" /\ f.pc = "done" /\ f.ret = "False"
    /\ f.tok0 = "t1" /\ token = "t1" /\ refresh_token = "r1"
    /\ f.status = 401
    /\ f.reqs = <<Request("DELETE", "t1", 0)>>

\* create_booking, started without a token, authenticated at the second
\* attempt and then sent GET /hosts and POST /reservations with that token.
C10_WitnessNoToken ==
    LET f == task[1] IN
    /\ f.op = "create_booking" /\ f.pc = "done"
    /\ f.tok0 = NoneVal /\ f.auth_ret = "True"
    /\ Len(f.hist) = 2 /\ Len(f.reqs) = 4
    /\ f.reqs[3].ep = "GET_HOSTS" /\ f.reqs[3].bearer = token
    /\ f.reqs[4].ep = "POST" /\ f.reqs[4].bearer = token

-----------------------------------------------------------------------------
(* Properties of the host cache *)

\* C11: once the host cache is populated its mapping is the same in every
\* later state, whatever calls are made, however they interleave and
\* whatever later GET /hosts responses contain.
C11_CacheNeverChanges ==
    [][hosts_cache.loaded => hosts_cache'.map = hosts_cache.map]_vars

\* A GET /hosts request is appended to the requests of create_booking or of
\* _map_pc_to_host_id in task t.
SendsGetHosts(t) ==
    /\ task'[t].op \in {"create_booking", "_map_pc_to_host_id"}
    /\ task'[t].reqs # task[t].reqs
    /\ task'[t].reqs # <<>>
    /\ Last(task'[t].reqs).ep = "GET_HOSTS"

\* C12: the host cache is populated at most once per process: once it is
\* populated, no call, sequential or concurrent, sends another GET /hosts
\* for it or assigns it again.
C12_PopulatedOnce ==
    [][hosts_cache.loaded =>
          \A t \in Tasks :
              /\ ~ SendsGetHosts(t)
              /\ ~ (task'[t].cache_set /\ ~ task[t].cache_set)]_vars

\* The ids of the records of list hosts that have number n and an id.
ClaimedHostIds(hosts, n) ==
    {hosts[i].id : i \in {j \in 1..Len(hosts) :
                             hosts[j].number = n /\ hosts[j].id # NoInt}}

\* C13: _map_pc_to_host_id(n) returns the id of the host record with number
\* n when the list the cache was filled from has such a record with number
\* and id; it returns n when there is no such record, when the record lacks
\* number or id, when the list is empty and when get_hosts failed.  It never
\* reports a failure.
C13_ResolveHostId ==
    \A t \in Tasks :
        LET f == task[t] IN
        (f.op = "_map_pc_to_host_id" /\ f.pc = "done") =>
            /\ f.ret = "int"
            /\ IF hosts_cache.loaded /\ ClaimedHostIds(hosts_cache.src, f.arg) # {}
               THEN f.val \in ClaimedHostIds(hosts_cache.src, f.arg)
               ELSE f.val = f.arg

-----------------------------------------------------------------------------
(* Properties of the payload of create_booking *)

\* A text "HH:MM" with HH in 00..23 and MM in 00..59.
WellFormedTime(s) ==
    /\ Len(s) = 5
    /\ \A i \in {1, 2, 4, 5} : IsDigit(s[i])
    /\ s[3] = 58
    /\ (s[1] - 48) * 10 + (s[2] - 48) <= 23
    /\ (s[4] - 48) * 10 + (s[5] - 48) <= 59

\* The POST /reservations requests of the create_booking in frame f.
Posts(f) == {i \in 1..Len(f.reqs) : f.reqs[i].ep = "POST"}

\* C14: the duration sent is (minutes(time_to) - minutes(time_from)) mod 1440
\* for well-formed times (120 for 23:00 to 01:00), always an integer in
\* 0..1439, and 60 when one of the texts fails to parse.
C14_Duration ==
    \A t \in Tasks :
        LET f == task[t] IN
        \A i \in Posts(f) :
            LET d == f.reqs[i].duration IN
            /\ d \in 0..1439
            /\ (WellFormedTime(f.time_from) /\ WellFormedTime(f.time_to))
                  => d = (MinutesOf(f.time_to) - MinutesOf(f.time_from)) % 1440
            /\ (f.time_from = TimeStr(23, 0) /\ f.time_to = TimeStr(1, 0)) => d = 120
            /\ (~ Strptime(f.time_from).ok \/ ~ Strptime(f.time_to).ok) => d = 60

\* A booking from 23:00 to 01:00 was sent with duration 120.
C14_Witness ==
    LET f == task[1] IN
    /\ f.time_from = TimeStr(23, 0) /\ f.time_to = TimeStr(1, 0)
    /\ Posts(f) # {}
    /\ \A i \in Posts(f) : f.reqs[i].duration = 120

AtPositions(e) == {i \in 1..Len(e) : e[i] = "@"}

\* C15 as stated: contactEmail of the request is the given text when it has
\* an '@' and a '.' after it, and empty in every other case, a text with
\* more than one '@' included.
C15_EmailOneAt ==
    \A t \in Tasks :
        LET f == task[t]
            e == f.contact_email
        IN  \A i \in Posts(f) :
                f.reqs[i].contactEmail =
                    IF /\ Cardinality(AtPositions(e)) = 1
                       /\ \E a \in AtPositions(e) : \E k \in (a + 1)..Len(e) : e[k] = "."
                    THEN e ELSE <<>>

\* C15: contactEmail of the request is the given text when it has an '@' and
\* a '.' between its first '@' and the next '@' (or the end of the text),
\* and empty in every other case.
C15_EmailFirstPiece ==
    \A t \in Tasks :
        LET f == task[t]
            e == f.contact_email
        IN  \A i \in Posts(f) :
                f.reqs[i].contactEmail =
                    IF \E a \in AtPositions(e) :
                          /\ \A b \in AtPositions(e) : a <= b
                          /\ \E k \in (a + 1)..Len(e) :
                                /\ e[k] = "."
                                /\ \A j \in (a + 1)..k : e[j] # "@"
                    THEN e ELSE <<>>

\* "a@b.c@d", a text with two '@', was sent as it is.
C15_Witness ==
    LET f == task[1] IN
    /\ f.contact_email = <<"a", "@", "b", ".", "c", "@", "d">>
    /\ Posts(f) # {}
    /\ \A i \in Posts(f) : f.reqs[i].contactEmail = f.contact_email

-----------------------------------------------------------------------------
(* Properties of create_booking and delete_booking *)

\* The coroutine in frame f has received the response to its POST or DELETE
\* request (or the exception raised in its place).
Answered(f) == f.resp.exc # "-"

Answered200(f) == f.resp.exc = "none" /\ f.resp.status = 200

\* C16: on a readable HTTP 200 create_booking returns the object under
\* "result" for {"result": {...}}, the body for a bare object, and
\* {"id": r} for every scalar result r, r = 0 included.
C16_BookingRecord ==
    \A t \in Tasks :
        LET f == task[t] IN
        (/\ f.op = "create_booking" /\ f.pc = "done"
         /\ Answered200(f) /\ f.resp.json = "ok") =>
            /\ f.ret = "record"
            /\ f.resp.shape = "result_obj" => f.rec = BookingData("inner", f.resp.id)
            /\ f.resp.shape = "bare_obj" => f.rec = BookingData("body", f.resp.id)
            /\ f.resp.shape = "result_scalar" => f.rec = BookingData("wrapped", f.resp.id)

\* C17: one create_booking sends at most one POST /reservations; a status
\* other than 200 or an exception ends it with None and no second request;
\* when authentication fails it sends no POST at all.
C17_OnePost ==
    \A t \in Tasks :
        LET f == task[t] IN
        f.op = "create_booking" =>
            /\ Cardinality(Posts(f)) <= 1
            /\ Answered(f) => (f.pc = "done" /\ Cardinality(Posts(f)) = 1)
            /\ (Answered(f) /\ ~ Answered200(f)) => f.ret = "None"
            /\ f.auth_ret = "False" =>
                  (Posts(f) = {} /\ f.pc = "done" /\ f.ret = "None")

\* create_booking was answered 500 with a body that is not JSON and returned
\* None after its single POST.
C17_Witness ==
    LET f == task[1] IN
    /\ f.op = "create_booking" /\ f.pc = "done" /\ f.ret = "None"
    /\ f.resp.exc = "none" /\ f.resp.status = 500 /\ f.resp.json = "raises"
    /\ Cardinality(Posts(f)) = 1

\* The DELETE requests of the delete_booking in frame f.
Deletes(f) == {i \in 1..Len(f.reqs) : f.reqs[i].ep = "DELETE"}

\* C18: delete_booking returns True exactly when its single DELETE was
\* answered 200, whatever the body; another status or an exception gives
\* False and no second DELETE; when authentication fails no DELETE is sent.
C18_DeleteOnce ==
    \A t \in Tasks :
        LET f == task[t] IN
        f.op = "delete_booking" =>
            /\ Cardinality(Deletes(f)) <= 1
            /\ Answered(f) => (f.pc = "done" /\ Cardinality(Deletes(f)) = 1)
            /\ f.pc = "done" =>
                  /\ f.ret \in {"True", "False"}
                  /\ f.ret = "True" <=> (Answered(f) /\ Answered200(f))
            /\ f.auth_ret = "False" => (Deletes(f) = {} /\ f.pc = "done")

\* delete_booking was answered 200 with a body that cannot be read and
\* returned True after its single DELETE.
C18_Witness ==
    LET f == task[1] IN
    /\ f.op = "delete_booking" /\ f.pc = "done" /\ f.ret = "True"
    /\ Answered200(f) /\ f.resp.json = "raises"
    /\ Cardinality(Deletes(f)) = 1

-----------------------------------------------------------------------------
(* Properties of the functions of the ledger *)

\* Row r holds the values caller record a gave to add_booking.
RowAsGiven(r, a) ==
    /\ r.user_id = a.user_id
    /\ r.pc_number = a.pc_number
    /\ r.date = a.date
    /\ r.time_from = a.time_from
    /\ r.time_to = a.time_to
    /\ r.api_booking_id = a.api_booking_id

\* The step is an add_booking that inserts exactly one new row, with a new
\* id and the values given (api_booking_id NULL when omitted), and leaves
\* the other rows as they were.
InsertsOneRow ==
    \E r \in bookings' :
        /\ r \notin bookings
        /\ bookings' = bookings \cup {r}
        /\ \A q \in bookings : q.id # r.id
        /\ RowAsGiven(r, caller'[1])

\* The step is a call of add_booking by caller 1 (no other function leaves
\* the caller with an add_booking just called).
AddStep == caller'[1].pc = "ret" /\ caller'[1].op = "add_booking"

\* C19 as stated: add_booking inserts exactly one new row with the values
\* given and returns the id of that row.
C19_AddReturnsId ==
    [][AddStep =>
          /\ InsertsOneRow
          /\ \E r \in bookings' \ bookings : caller'[1].ret = <<r.id>>]_vars

\* C19: add_booking inserts exactly one new row with the values given
\* (api_booking_id NULL when omitted) and returns nothing.
C19_AddReturnsNothing ==
    [][AddStep => (InsertsOneRow /\ caller'[1].ret = <<>>)]_vars

\* add_booking was called without api_booking_id for values the ledger
\* already held: it returned nothing and the ledger has two such rows, the
\* new one with api_booking_id NULL.
C19_Witness ==
    LET a == caller[1] IN
    /\ a.pc = "ret" /\ a.op = "add_booking" /\ a.ret = <<>>
    /\ a.api_booking_id = NoInt
    /\ Cardinality(bookings) = 2
    /\ \A r \in bookings :
          /\ r.user_id = a.user_id /\ r.pc_number = a.pc_number /\ r.date = a.date
          /\ r.time_from = a.time_from /\ r.time_to = a.time_to
    /\ \E r \in bookings : r.id = seq /\ r.api_booking_id = NoInt

\* C20: get_last_booking(user) returns the row with the highest id among the
\* rows of that user, or nothing when the user has none; called directly
\* after add_booking for that user it returns the row just inserted, also
\* when rows were deleted earlier.
C20_LastBooking ==
    /\ [](\A c \in Callers :
            (caller[c].pc = "ret" /\ caller[c].op = "get_last_booking") =>
                LET mine == {r \in bookings : r.user_id = caller[c].user_id} IN
                IF mine = {} THEN caller[c].ret = <<>>
                ELSE \E r \in mine :
                        /\ \A q \in mine : q.id <= r.id
                        /\ caller[c].ret = <<RowTuple(r)>>)
    /\ [][(/\ caller[1].pc = "ret" /\ caller[1].op = "add_booking"
           /\ caller'[1].op = "get_last_booking"
           /\ caller'[1].user_id = caller[1].user_id) =>
              caller'[1].ret = <<<<seq, caller[1].pc_number, caller[1].date,
                                   caller[1].time_from, caller[1].time_to,
                                   caller[1].api_booking_id>>>>]_vars

\* get_last_booking, called directly after the second add_booking, returned
\* the row with id 2; row 1 had been deleted before that add_booking.
C20_Witness ==
    LET a == caller[1] IN
    /\ a.pc = "ret" /\ a.op = "get_last_booking" /\ a.prev = "add_booking"
    /\ seq = 2
    /\ Cardinality(bookings) = 1
    /\ \E r \in bookings : r.user_id = a.user_id /\ a.ret = <<RowTuple(r)>> /\ r.id = 2

\* C21: ids are unique and sequential over the whole history of the ledger:
\* every add_booking assigns an id above every id assigned before it, ids of
\* deleted rows included (seq is the largest id ever assigned and never
\* decreases), so no id is used again.
C21_IdsNeverReused ==
    /\ [](\A r \in bookings : /\ r.id >= 1 /\ r.id <= seq
                              /\ \A q \in bookings : q.id = r.id => q = r)
    /\ [][/\ seq' >= seq
          /\ AddStep => \E r \in bookings' \ bookings :
                           /\ r.id = seq + 1
                           /\ seq' = r.id
                           /\ \A q \in bookings : q.id < r.id]_vars

\* Row 1 was deleted and the add_booking called next gave its row id 2.
C21_Witness ==
    LET a == caller[1] IN
    /\ a.pc = "ret" /\ a.op = "add_booking" /\ a.prev = "delete_booking"
    /\ seq = 2
    /\ Cardinality(bookings) = 1
    /\ \E r \in bookings : r.id = 2 /\ RowAsGiven(r, a)

\* The day a well-formed "YYYY-MM-DD" text denotes, as the number YYYYMMDD.
DayOf(d) ==
    ((d[1] - 48) * 1000 + (d[2] - 48) * 100 + (d[3] - 48) * 10 + (d[4] - 48)) * 10000
        + ((d[6] - 48) * 10 + (d[7] - 48)) * 100
        + (d[9] - 48) * 10 + (d[10] - 48)

\* C22: get_user_bookings(user) returns exactly the rows of that user, none
\* of another user and none missing, ordered by date descending and, within
\* one date, by time_from descending.
C22_UserBookings ==
    \A c \in Callers :
        (caller[c].pc = "ret" /\ caller[c].op = "get_user_bookings") =>
            LET mine == {r \in bookings : r.user_id = caller[c].user_id}
                res  == caller[c].ret
            IN  /\ Len(res) = Cardinality(mine)
                /\ {res[i] : i \in 1..Len(res)} = {RowTuple(r) : r \in mine}
                /\ \A i \in 1..Len(res) : \A j \in (i + 1)..Len(res) :
                      \/ DayOf(res[i][3]) > DayOf(res[j][3])
                      \/ /\ res[i][3] = res[j][3]
                         /\ MinutesOf(res[i][4]) >= MinutesOf(res[j][4])

\* Two rows of one user and date were returned, the one inserted last and
\* starting later first.
C22_Witness ==
    LET a == caller[1] IN
    /\ a.pc = "ret" /\ a.op = "get_user_bookings"
    /\ Len(a.ret) = 2
    /\ a.ret[1][1] = 2 /\ a.ret[2][1] = 1
    /\ a.ret[1][3] = a.ret[2][3]
    /\ MinutesOf(a.ret[1][4]) > MinutesOf(a.ret[2][4])

\* The step is a call of delete_booking by caller 1.
DeleteStep == caller'[1].pc = "ret" /\ caller'[1].op = "delete_booking"

\* C23: delete_booking(id) removes the row with that id and leaves every
\* other row unchanged; for an id matching no row it changes nothing and
\* reports no error.  An id once gone never comes back, and
\* get_user_bookings and get_last_booking return only rows the ledger holds,
\* so they never return the deleted row afterwards.
C23_DeleteBooking ==
    /\ [][/\ DeleteStep =>
                /\ bookings' = {r \in bookings : r.id # caller'[1].booking_id}
                /\ ((\A r \in bookings : r.id # caller'[1].booking_id)
                        => bookings' = bookings)
                /\ caller'[1].ret = <<>>
          /\ \A r \in bookings' : r.id <= seq => \E q \in bookings : q.id = r.id]_vars
    /\ [](\A c \in Callers :
            (caller[c].pc = "ret" /\ caller[c].op \in {"get_user_bookings", "get_last_booking"})
                => \A i \in 1..Len(caller[c].ret) :
                      \E r \in bookings : r.id = caller[c].ret[i][1])

\* The first of two rows was deleted: the second is all the ledger holds.
C23_Witness ==
    LET a == caller[1] IN
    /\ a.pc = "ret" /\ a.op = "delete_booking" /\ a.booking_id = 1
    /\ a.prev = "add_booking"
    /\ seq = 2
    /\ Cardinality(bookings) = 1
    /\ \E r \in bookings : r.id = 2

\* The step is a call of update_booking_api_id by caller 1.
UpdateStep == caller'[1].pc = "ret" /\ caller'[1].op = "update_booking_api_id"

\* C24: update_booking_api_id(id, remote) changes only api_booking_id of the
\* row with that id: every other row and every other column is unchanged,
\* and nothing changes when no row has that id.  Applying it a second time
\* with the same arguments leaves the ledger as the first application left
\* it.
C24_UpdateRemoteId ==
    [][UpdateStep =>
          LET b == caller'[1].booking_id
              a == caller'[1].api_booking_id
          IN  /\ \A r \in bookings : r.id # b => r \in bookings'
              /\ \A r \in bookings : r.id = b =>
                    [r EXCEPT !.api_booking_id = a] \in bookings'
              /\ Cardinality(bookings') = Cardinality(bookings)
              /\ ((\A r \in bookings : r.id # b) => bookings' = bookings)
              /\ ( (/\ caller[1].pc = "ret"
                    /\ caller[1].op = "update_booking_api_id"
                    /\ caller[1].booking_id = b
                    /\ caller[1].api_booking_id = a) => bookings' = bookings )]_vars

\* The first of two rows has been given a remote id it did not have; the
\* second row still has none.
C24_Witness ==
    LET a == caller[1] IN
    /\ a.pc = "ret" /\ a.op = "update_booking_api_id"
    /\ a.booking_id = 1 /\ a.api_booking_id \in LaterRemoteIds
    /\ \E r \in bookings : r.id = 1 /\ r.api_booking_id = a.api_booking_id
    /\ \E r \in bookings : r.id = 2 /\ r.api_booking_id = NoInt

\* The operations the claim names, and what each returns to report a failure.
ReportingOps == {"authenticate", "get_hosts", "create_booking", "delete_booking"}

FailureValue(op) ==
    IF op \in {"authenticate", "delete_booking"} THEN "False" ELSE "None"

ReturnValues(op) ==
    CASE op \in {"authenticate", "delete_booking"} -> {"True", "False"}
      [] op = "get_hosts"      -> {"hosts", "None"}
      [] op = "create_booking" -> {"record", "None"}

\* The request was not answered by a 200 whose body could be read.
FailedResponse(o) ==
    o.exc # "-" /\ (o.exc # "none" \/ o.status # 200 \/ o.json = "raises")

\* C25: authenticate, get_hosts, create_booking and delete_booking of the
\* client report every failure (any status, connection error, timeout,
\* unreadable or malformed body, malformed host records) through the value
\* they return, False or None: no exception leaves them.
C25_FailuresReturned ==
    \A t \in Tasks :
        LET f == task[t] IN
        (f.op \in ReportingOps) =>
            /\ f.ret # "raise"
            /\ (f.pc = "done") =>
                  /\ f.ret \in ReturnValues(f.op)
                  /\ (f.auth_ret = "False") => f.ret = FailureValue(f.op)
                  /\ (f.op = "authenticate" /\ f.hist = <<>>) => f.ret = "False"
                  /\ (f.op = "authenticate" /\ f.hist # <<>>
                        /\ FailedResponse(Last(f.hist)))
                        => f.ret = "False"
                  /\ (f.op = "get_hosts" /\ FailedResponse(f.hosts_resp))
                        => f.ret = "None"
                  /\ (f.op = "create_booking" /\ FailedResponse(f.resp))
                        => f.ret = "None"
                  /\ (f.op = "delete_booking"
                        /\ f.resp.exc # "-"
                        /\ (f.resp.exc # "none" \/ f.resp.status # 200))
                        => f.ret = "False"
                  /\ (f.op = "create_booking"
                        /\ f.hosts_resp.exc # "-"
                        /\ \E i \in 1..Len(f.hosts_resp.hosts) : ~ f.hosts_resp.hosts[i].obj)
                        => f.ret = "None"

\* create_booking got a host list with an element that is not an object:
\* it returned None and sent no POST.
C25_Witness ==
    \E t \in Tasks :
        LET f == task[t] IN
        /\ f.op = "create_booking" /\ f.pc = "done" /\ f.ret = "None"
        /\ f.hosts_resp.exc = "none" /\ f.hosts_resp.status = 200
        /\ \E i \in 1..Len(f.hosts_resp.hosts) : ~ f.hosts_resp.hosts[i].obj
        /\ \A i \in 1..Len(f.reqs) : f.reqs[i].ep # "POST"

\* C26: in every interleaving of concurrent operations on one client, each
\* GET /hosts, POST /reservations and DELETE request is sent with a present,
\* non-empty access token in its Authorization header (never "Bearer None").
C26_RequestsCarryToken ==
    \A t \in Tasks :
        \A i \in 1..Len(task[t].reqs) :
            task[t].reqs[i].ep \in OwnEndpoints => ~ Falsy(task[t].reqs[i].bearer)

\* C27: an authenticate() call that returns False leaves the session state
\* as it was when the call started: token and refresh_token keep their
\* previous values.
C27_FailedAuthKeepsTokens ==
    \A t \in Tasks :
        LET f == task[t] IN
        (f.op = "authenticate" /\ f.pc = "done" /\ f.ret = "False") =>
            (token = f.tok0 /\ refresh_token = f.ref0)

\* A booking crosses midnight when its end reads earlier than its start.
CrossesMidnight(time_from, time_to) == MinutesOf(time_to) < MinutesOf(time_from)

\* The minute of the day at which a booking stops occupying its own date.
DayEnd(time_from, time_to) ==
    IF CrossesMidnight(time_from, time_to) THEN 24 * 60 ELSE MinutesOf(time_to)

\* Two bookings occupy a common minute of the date they are stored under.
ShareDayTime(f1, t1, f2, t2) ==
    /\ MinutesOf(f1) < DayEnd(f1, t1)
    /\ MinutesOf(f2) < DayEnd(f2, t2)
    /\ MinutesOf(f1) < DayEnd(f2, t2)
    /\ MinutesOf(f2) < DayEnd(f1, t1)

\* C28: for a query that crosses midnight (time_to < time_from),
\* is_pc_available answers False whenever a row of the same station and date
\* occupies part of the time from time_from to the end of that day; and a
\* stored row that crosses midnight makes every query inside its span on
\* that date unavailable.
C28_MidnightCrossing ==
    \A c \in Callers :
        LET q == caller[c] IN
        (q.pc = "checked") =>
            \A r \in bookings :
                (/\ r.pc_number = q.pc_number
                 /\ r.date = q.date
                 /\ \/ CrossesMidnight(q.time_from, q.time_to)
                    \/ CrossesMidnight(r.time_from, r.time_to)
                 /\ ShareDayTime(q.time_from, q.time_to, r.time_from, r.time_to))
                    => ~ q.ok

\* C29: adding a booking and deleting it by its id restores availability:
\* when is_pc_available was True before add_booking, it is False after the
\* add_booking for time_from < time_to, and True again after delete_booking
\* of the new row, the ledger holding the rows it held before.
C29_AddDeleteRestores ==
    \A c \in Callers :
        LET q == caller[c] IN
        (q.pc \in {"trip_rechecked", "trip_known", "trip_deleted", "trip_final"} /\ q.ok0) =>
            /\ (MinutesOf(q.time_from) < MinutesOf(q.time_to)) => ~ q.ok1
            /\ (q.pc \in {"trip_deleted", "trip_final"}) => bookings = q.before
            /\ (q.pc = "trip_final") => q.ok2

\* A free slot was booked beside a row the ledger already held, found taken,
\* cancelled and found free again.
C29_Witness ==
    LET q == caller[1] IN
    /\ q.pc = "trip_final"
    /\ q.ok0 /\ ~ q.ok1 /\ q.ok2
    /\ q.booking_id = 2
    /\ MinutesOf(q.time_from) < MinutesOf(q.time_to)
    /\ \E r \in bookings : r.id = 1 /\ r.pc_number = q.pc_number /\ r.date = q.date
    /\ bookings = q.before

\* The GET /hosts request of frame f was answered by a list of hosts.
GotHostList(f) ==
    /\ f.hosts_resp.exc = "none"
    /\ f.hosts_resp.status = 200
    /\ f.hosts_resp.json = "ok"
    /\ f.hosts_resp.shape \in {"result_data", "data", "list"}

\* C30: a get_hosts failure during _map_pc_to_host_id leaves the cache
\* unset, so the fallback is not remembered: a later _map_pc_to_host_id
\* that finds the cache unset asks for the host list again (after
\* authenticating when there is no token) and, once the list arrives,
\* returns the host id the list gives for that station number.
C30_RetryAfterFailure ==
    /\ [](\A t \in Tasks :
            LET f == task[t] IN
            (f.op = "_map_pc_to_host_id" /\ f.pc = "done") =>
                /\ FailedResponse(f.hosts_resp) =>
                      /\ ~ hosts_cache.loaded
                      /\ f.ret = "int" /\ f.val = f.arg
                /\ (/\ hosts_cache.failed
                    /\ f.hosts_resp.exc # "-"
                    /\ GotHostList(f)
                    /\ ClaimedHostIds(f.hosts_resp.hosts, f.arg) # {}) =>
                      /\ f.ret = "int"
                      /\ f.val \in ClaimedHostIds(f.hosts_resp.hosts, f.arg))
    /\ [][\A t \in Tasks :
            (/\ task[t].pc = "idle"
             /\ task'[t].op = "_map_pc_to_host_id"
             /\ hosts_cache.failed /\ ~ hosts_cache.loaded) =>
                \/ task'[t].pc = "auth"
                \/ /\ task'[t].pc = "wait_hosts"
                   /\ Last(task'[t].reqs).ep = "GET_HOSTS"]_vars

====
